---- MODULE Spec2Model ----
(***************************************************************************)
(* Touch-session state machine of player-chooser (src/script.js, the       *)
(* second, complete copy of the script: lines 295-673).                    *)
(*                                                                         *)
(* The program state is the script's globals (touchesData, lastTouchTime,  *)
(* showingResult, locked, resultTimer, teams), the DOM elements the logic  *)
(* reads or writes (the checked mode radio, countInput.value, the result   *)
(* overlay) and whether the requestAnimationFrame loop is still scheduled. *)
(* The environment is the clock (Date.now()) and the set of fingers that   *)
(* are physically on the surface.  The canvas drawing itself (angle,       *)
(* radius, hint element, strokes) has no influence on the session logic    *)
(* and is left out.                                                        *)
(*                                                                         *)
(* Time: every animation frame reads the clock; the frame action advances  *)
(* the clock by 0 or TimeStep ms, so touch events are stamped with the     *)
(* time of the latest frame.  The auto-reset timer fires exactly at its    *)
(* deadline: no frame is scheduled past a pending deadline.                *)
(***************************************************************************)
EXTENDS Integers, Sequences, FiniteSets, TLC

VARIABLES
    touchesData,    \* [id -> [x, y, color, active]], the touch registry
    lastTouchTime,  \* time of the last touchstart/touchend handled
    showingResult,  \* a final result is being shown
    locked,         \* touches and movement are ignored
    resultTimer,    \* <<>> (null) or <<deadline>> of the pending setTimeout
    teams,          \* sequence of teams, each a sequence of [id, color]
    resultOverlay,  \* [display, html] of the result overlay element
    mode,           \* value of the checked mode radio
    countInput,     \* countInput.value, a sequence of characters
    loopAlive,      \* drawLoop is still scheduled with requestAnimationFrame
    now,            \* Date.now()
    down,           \* fingers physically on the surface (environment)
    lockedAt,       \* history: <<>> or <<time at which the session locked>>
    lastStructural, \* history: time of the last touchstart/touchend event
                    \* handled since the last reset, 0 if there was none
    canvas          \* what the last frame drew: [skipped, teamLines]

vars == <<touchesData, lastTouchTime, showingResult, locked, resultTimer, teams,
          resultOverlay, mode, countInput, loopAlive, now, down, lockedAt,
          lastStructural, canvas>>

progVars == <<touchesData, lastTouchTime, showingResult, locked, resultTimer,
              teams, resultOverlay, mode, countInput, loopAlive>>

-----------------------------------------------------------------------------
(* Bounds of the model *)

\* finger identifiers 0..MaxId, and one identifier that wraps round the palette
MaxId == 0
\* at most this many touches in the changedTouches of one event
MaxBatch == 2
\* Math.random() returns m / RandDenom for m in 0..RandDenom-1
RandDenom == 4
\* the clock advances by this many ms per frame
TimeStep == 5000
\* Date.now() when the page is loaded
StartTime == 10000
\* the clock's horizon is StartTime + Horizon
Horizon == 20000
\* the crowd scenario: fingers 0..RestCount-1 rest on the surface
RestCount == 8
\* the crowd scenario: fingers RestCount..MaxCrowdId come and go
MaxCrowdId == 10
\* the selection scenario: fingers 0..MaxSelectId
MaxSelectId == 4

(* Program constants *)
INACTIVITY_TIMEOUT == 5000
RESET_DELAY == 10000
MAX_TOUCHES == 10

COLORS == <<"#e6194b", "#3cb44b", "#ffe119", "#0082c8", "#f58231",
            "#911eb4", "#46f0f0", "#f032e6", "#d2f53c", "#fabebe">>

COLOR_NAMES == [c \in {COLORS[i] : i \in 1..Len(COLORS)} |->
    CASE c = "#e6194b" -> "Red"
      [] c = "#3cb44b" -> "Green"
      [] c = "#ffe119" -> "Yellow"
      [] c = "#0082c8" -> "Blue"
      [] c = "#f58231" -> "Orange"
      [] c = "#911eb4" -> "Purple"
      [] c = "#46f0f0" -> "Cyan"
      [] c = "#f032e6" -> "Magenta"
      [] c = "#d2f53c" -> "Lime"
      [] c = "#fabebe" -> "Pink"]

-----------------------------------------------------------------------------
(* Inputs *)

Ids == (0 .. MaxId) \cup {Len(COLORS)}
CrowdIds == RestCount .. MaxCrowdId
RestIds == 0 .. (RestCount - 1)
SelectIds == 0 .. MaxSelectId
\* fingers land and lift at LandPoint and move between the Points
Points == {<<0, 0>>, <<1, 2>>}
LandPoint == <<0, 0>>
Modes == {"choose", "team"}
CountValues == {<<>>, <<"-", "1">>, <<"0">>, <<"2">>, <<"3">>}
Deltas == {0, TimeStep}
MaxTime == StartTime + Horizon
NULL == <<>>

Touch(id, p) == [identifier |-> id, clientX |-> p[1], clientY |-> p[2]]

\* the lists of at most MaxBatch distinct identifiers of S, in any order
IdLists(S) ==
    UNION {{f \in [1..k -> S] : \A a, b \in 1..k : a # b => f[a] # f[b]} :
           k \in 1..MaxBatch}

\* the elements of a set of integers in ascending order
RECURSIVE SortedSeq(_)
SortedSeq(S) ==
    IF S = {} THEN <<>>
    ELSE LET m == CHOOSE a \in S : \A b \in S : a <= b
         IN <<m>> \o SortedSeq(S \ {m})

\* the lists of at most MaxBatch distinct identifiers of S, ascending
SortedIdLists(S) ==
    {SortedSeq(T) : T \in {U \in SUBSET S : Cardinality(U) \in 1..MaxBatch}}

\* the changedTouches with the identifiers ids, each touch at any point
TouchesAt(ids) ==
    {[i \in 1..Len(ids) |-> Touch(ids[i], ps[i])] : ps \in [1..Len(ids) -> Points]}

\* the changedTouches with the identifiers ids, each touch at LandPoint
TouchesLanding(ids) == [i \in 1..Len(ids) |-> Touch(ids[i], LandPoint)]

\* changedTouches of a touchstart: the order decides who is dropped at capacity
StartLists(S) == {TouchesLanding(ids) : ids \in IdLists(S)}

\* changedTouches of a touchmove
MoveLists(S) == UNION {TouchesAt(ids) : ids \in SortedIdLists(S)}

\* changedTouches of a touchend or touchcancel: the handler reads only the
\* identifiers
EndLists(S) == {TouchesLanding(ids) : ids \in SortedIdLists(S)}

-----------------------------------------------------------------------------
(* Helpers *)

\* Object.keys of an object with integer keys: ascending numeric order
ObjectKeys(obj) == SortedSeq(DOMAIN obj)

DigitChars == <<"0", "1", "2", "3", "4", "5", "6", "7", "8", "9">>
IsDigit(c) == \E i \in 1..Len(DigitChars) : DigitChars[i] = c
DigitVal(c) == (CHOOSE i \in 1..Len(DigitChars) : DigitChars[i] = c) - 1

\* value of the longest prefix of digits of s, after acc; <<>> is "no digit"
RECURSIVE ParseDigits(_, _, _)
ParseDigits(s, acc, seen) ==
    IF s # <<>> /\ IsDigit(Head(s))
    THEN ParseDigits(Tail(s), acc * 10 + DigitVal(Head(s)), TRUE)
    ELSE IF seen THEN <<acc>> ELSE <<>>

\* parseInt(s, 10): <<n>>, or <<>> for NaN
parseInt(s) ==
    IF s # <<>> /\ Head(s) = "-"
    THEN LET r == ParseDigits(Tail(s), 0, FALSE)
         IN IF r = <<>> THEN <<>> ELSE <<0 - r[1]>>
    ELSE ParseDigits(s, 0, FALSE)

getColorName(colorCode) ==
    IF colorCode \in DOMAIN COLOR_NAMES THEN COLOR_NAMES[colorCode] ELSE colorCode

\* Math.floor(Math.random() * n) for Math.random() = m / RandDenom
RandomIndex(m, n) == (m * n) \div RandDenom

EmptyObject == [id \in {} |-> NULL]

-----------------------------------------------------------------------------
(* Initial state: the globals as declared, the page as loaded *)

\* ctx.clearRect(0, 0, canvas.width, canvas.height)
ClearCanvas == [skipped |-> {}, teamLines |-> FALSE]

Init ==
    /\ touchesData = EmptyObject
    /\ lastTouchTime = 0
    /\ showingResult = FALSE
    /\ locked = FALSE
    /\ resultTimer = NULL
    /\ teams = <<>>
    /\ resultOverlay = [display |-> FALSE, innerHTML |-> <<>>]
    /\ mode \in Modes
    /\ countInput \in CountValues
    /\ loopAlive = TRUE
    /\ now = StartTime
    /\ down = {}
    /\ lockedAt = NULL
    /\ lastStructural = 0
    /\ canvas = ClearCanvas

-----------------------------------------------------------------------------
(* Event handlers *)

\* variant of HasRoom: the bound of the capacity test is inclusive
HasRoomInclusive(td) == Cardinality(DOMAIN td) <= MAX_TOUCHES

\* the registry accepts another touch
HasRoom(td) == Cardinality(DOMAIN td) < MAX_TOUCHES

\* variant of NewTouch: the palette is indexed from 1
NewTouchFromOne(t) ==
    [x |-> t.clientX, y |-> t.clientY,
     color |-> COLORS[((t.identifier + 1) % Len(COLORS)) + 1],
     active |-> TRUE]

\* the object handleTouchStart stores for the touch t
NewTouch(t) ==
    [x |-> t.clientX, y |-> t.clientY,
     color |-> COLORS[(t.identifier % Len(COLORS)) + 1],
     active |-> TRUE]

\* touchesData[id] = value
Put(td, id, value) ==
    [k \in (DOMAIN td) \cup {id} |-> IF k = id THEN value ELSE td[k]]

\* delete touchesData[id]
Delete(td, id) == [k \in (DOMAIN td) \ {id} |-> td[k]]

\* the loop of handleTouchStart over ev.changedTouches
RECURSIVE AddTouches(_, _)
AddTouches(td, ev) ==
    IF ev = <<>> THEN td
    ELSE LET t == Head(ev)
         IN AddTouches(IF HasRoom(td) THEN Put(td, t.identifier, NewTouch(t))
                       ELSE td,
                       Tail(ev))

\* variant of MoveTouches: a touch that is not registered is stored
RECURSIVE MoveTouchesRegistering(_, _)
MoveTouchesRegistering(td, ev) ==
    IF ev = <<>> THEN td
    ELSE LET t == Head(ev)
             id == t.identifier
         IN MoveTouchesRegistering(
                IF id \in DOMAIN td
                THEN [td EXCEPT ![id].x = t.clientX, ![id].y = t.clientY]
                ELSE Put(td, id, NewTouch(t)),
                Tail(ev))

\* the loop of handleTouchMove over ev.changedTouches
RECURSIVE MoveTouches(_, _)
MoveTouches(td, ev) ==
    IF ev = <<>> THEN td
    ELSE LET t == Head(ev)
             id == t.identifier
         IN MoveTouches(IF id \in DOMAIN td
                        THEN [td EXCEPT ![id].x = t.clientX, ![id].y = t.clientY]
                        ELSE td,
                        Tail(ev))

\* variant of RemoveTouches: only the first changed touch is removed
RemoveFirstTouch(td, ev) ==
    IF ev = <<>> THEN td
    ELSE LET id == Head(ev).identifier
         IN IF id \in DOMAIN td THEN Delete(td, id) ELSE td

\* the loop of handleTouchEnd over ev.changedTouches
RECURSIVE RemoveTouches(_, _)
RemoveTouches(td, ev) ==
    IF ev = <<>> THEN td
    ELSE LET id == Head(ev).identifier
         IN RemoveTouches(IF id \in DOMAIN td THEN Delete(td, id) ELSE td,
                          Tail(ev))

handleTouchStart(ev) ==
    IF locked THEN UNCHANGED progVars
    ELSE /\ showingResult' = FALSE
         /\ touchesData' = AddTouches(touchesData, ev)
         /\ lastTouchTime' = now
         /\ UNCHANGED <<locked, resultTimer, teams, resultOverlay, mode,
                        countInput, loopAlive>>

\* variant of handleTouchMove: the handler lacks the test of locked
handleTouchMoveUnguarded(ev) ==
    /\ touchesData' = MoveTouches(touchesData, ev)
    /\ UNCHANGED <<lastTouchTime, showingResult, locked, resultTimer, teams,
                   resultOverlay, mode, countInput, loopAlive>>

\* variant of handleTouchMove: the handler calls updateLastTouchTime
handleTouchMoveStamping(ev) ==
    IF locked THEN UNCHANGED progVars
    ELSE /\ touchesData' = MoveTouches(touchesData, ev)
         /\ lastTouchTime' = now
         /\ UNCHANGED <<showingResult, locked, resultTimer, teams,
                        resultOverlay, mode, countInput, loopAlive>>

handleTouchMove(ev) ==
    IF locked THEN UNCHANGED progVars
    ELSE /\ touchesData' = MoveTouches(touchesData, ev)
         /\ UNCHANGED <<lastTouchTime, showingResult, locked, resultTimer, teams,
                        resultOverlay, mode, countInput, loopAlive>>

handleTouchEnd(ev) ==
    IF locked THEN UNCHANGED progVars
    ELSE /\ showingResult' = FALSE
         /\ touchesData' = RemoveTouches(touchesData, ev)
         /\ lastTouchTime' = now
         /\ UNCHANGED <<locked, resultTimer, teams, resultOverlay, mode,
                        countInput, loopAlive>>

\* variant of resetAll: the pending timer is not cancelled
resetAllKeepTimer ==
    /\ touchesData' = EmptyObject
    /\ showingResult' = FALSE
    /\ locked' = FALSE
    /\ lastTouchTime' = 0
    /\ teams' = <<>>
    /\ resultOverlay' = [display |-> FALSE, innerHTML |-> <<>>]
    /\ UNCHANGED resultTimer

\* the variables resetAll writes, as a record
SessionState ==
    [touchesData |-> touchesData, showingResult |-> showingResult,
     locked |-> locked, lastTouchTime |-> lastTouchTime, teams |-> teams,
     resultOverlay |-> resultOverlay, resultTimer |-> resultTimer]

\* variant of ResetResult: lastTouchTime is not reset
ResetResultKeepsTime(s) ==
    [touchesData |-> EmptyObject, showingResult |-> FALSE, locked |-> FALSE,
     lastTouchTime |-> s.lastTouchTime, teams |-> <<>>,
     resultOverlay |-> [display |-> FALSE, innerHTML |-> <<>>],
     resultTimer |-> IF s.resultTimer # NULL THEN NULL ELSE s.resultTimer]

\* variant of ResetResult: the registry is not emptied
ResetResultKeepsTouches(s) ==
    [touchesData |-> s.touchesData, showingResult |-> FALSE, locked |-> FALSE,
     lastTouchTime |-> 0, teams |-> <<>>,
     resultOverlay |-> [display |-> FALSE, innerHTML |-> <<>>],
     resultTimer |-> IF s.resultTimer # NULL THEN NULL ELSE s.resultTimer]

\* the values resetAll leaves in the variables it writes, called in state s
ResetResult(s) ==
    [touchesData |-> EmptyObject, showingResult |-> FALSE, locked |-> FALSE,
     lastTouchTime |-> 0, teams |-> <<>>,
     resultOverlay |-> [display |-> FALSE, innerHTML |-> <<>>],
     resultTimer |-> IF s.resultTimer # NULL THEN NULL ELSE s.resultTimer]

\* the assignments of resetAll; the radio and the input keep their values
resetAll ==
    LET r == ResetResult(SessionState)
    IN /\ touchesData' = r.touchesData
       /\ showingResult' = r.showingResult
       /\ locked' = r.locked
       /\ lastTouchTime' = r.lastTouchTime
       /\ teams' = r.teams
       /\ resultOverlay' = r.resultOverlay
       /\ resultTimer' = r.resultTimer

-----------------------------------------------------------------------------
(* The selection: lockAndShowResult *)

\* activeKeys[Math.floor(Math.random() * activeKeys.length)]
ChosenKey(activeKeys, m) == activeKeys[RandomIndex(m, Len(activeKeys)) + 1]

\* variant of HideOthers: the comparison with the chosen key never matches
HideAll(td, chosenKey) ==
    [id \in DOMAIN td |-> [td[id] EXCEPT !.active = FALSE]]

\* every touch but the chosen one is hidden
HideOthers(td, chosenKey) ==
    [id \in DOMAIN td |->
        IF id # chosenKey THEN [td[id] EXCEPT !.active = FALSE] ELSE td[id]]

\* variant of ClampTeamCount: the clamp to the number of touches is missing
ClampLowOnly(k, n) == IF k < 1 THEN 1 ELSE k

\* the two clamps of the parsed team count k, for n touches
ClampTeamCount(k, n) ==
    LET a == IF k < 1 THEN 1 ELSE k
    IN IF a > n THEN n ELSE a

\* variant of Swap: only one of the two elements is written
SwapOneWay(arr, p, q) == [arr EXCEPT ![p] = arr[q]]

\* [arr[p], arr[q]] = [arr[q], arr[p]]
Swap(arr, p, q) == [arr EXCEPT ![p] = arr[q], ![q] = arr[p]]

\* the shuffle loop, at (1-based) position p going down to 2; draws[p] is the
\* numerator of the Math.random() drawn at that position
RECURSIVE Shuffle(_, _, _)
Shuffle(arr, p, draws) ==
    IF p < 2 THEN arr
    ELSE Shuffle(Swap(arr, p, RandomIndex(draws[p], p) + 1), p - 1, draws)

\* variant of Distribute: the touch is put at the front of its team
RECURSIVE DistributeAtFront(_, _, _, _)
DistributeAtFront(ts, arr, index, teamCount) ==
    IF arr = <<>> THEN ts
    ELSE DistributeAtFront([ts EXCEPT ![index + 1] = <<Head(arr)>> \o @],
                           Tail(arr), (index + 1) % teamCount, teamCount)

\* the distribution loop: teams[index].push(touchObj); index = (index+1) % teamCount
RECURSIVE Distribute(_, _, _, _)
Distribute(ts, arr, index, teamCount) ==
    IF arr = <<>> THEN ts
    ELSE Distribute([ts EXCEPT ![index + 1] = Append(@, Head(arr))],
                    Tail(arr), (index + 1) % teamCount, teamCount)

\* activeKeys.map((id) => ({ id, color: touchesData[id].color }))
TouchArray(td) ==
    LET activeKeys == ObjectKeys(td)
    IN [i \in 1..Len(activeKeys) |->
          [id |-> activeKeys[i], color |-> td[activeKeys[i]].color]]

\* the teams for the touches of td, the parsed count k and the draws
MakeTeams(td, k, draws) ==
    LET activeKeys == ObjectKeys(td)
        teamCount == ClampTeamCount(k, Len(activeKeys))
        touchArray == TouchArray(td)
    IN Distribute([i \in 1..teamCount |-> <<>>],
                  Shuffle(touchArray, Len(touchArray), draws), 0, teamCount)

WinnerText(color) == <<"Winner", color, getColorName(color)>>

TeamsText(ts) ==
    [i \in 1..Len(ts) |->
        <<"Team", i, [j \in 1..Len(ts[i]) |->
                        <<ts[i][j].color, getColorName(ts[i][j].color)>>]>>]

\* lockAndShowResult, called at clock reading t
lockAndShowResult(t) ==
    LET activeKeys == ObjectKeys(touchesData)
        n == Len(activeKeys)
        parsed == parseInt(countInput)
    IN
    /\ locked' = TRUE
    /\ showingResult' = TRUE
    /\ UNCHANGED <<lastTouchTime, mode, countInput>>
    /\ IF n = 0
       THEN UNCHANGED <<touchesData, teams, resultOverlay, resultTimer, loopAlive>>
       ELSE IF mode = "choose"
       THEN \E m \in 0..(RandDenom - 1) :
               LET chosenKey == ChosenKey(activeKeys, m)
               IN /\ touchesData' = HideOthers(touchesData, chosenKey)
                  /\ resultOverlay' =
                        [display |-> TRUE,
                         innerHTML |-> WinnerText(touchesData[chosenKey].color)]
                  /\ resultTimer' = <<t + RESET_DELAY>>
                  /\ UNCHANGED <<teams, loopAlive>>
       ELSE IF mode = "team"
       THEN IF parsed = NULL
            THEN \* teamCount is NaN: no team is created and teams[0].push
                 \* throws; the exception leaves drawLoop before it
                 \* reschedules itself
                 /\ teams' = <<>>
                 /\ loopAlive' = FALSE
                 /\ UNCHANGED <<touchesData, resultOverlay, resultTimer>>
            ELSE \E draws \in [2..n -> 0..(RandDenom - 1)] :
                    LET ts == MakeTeams(touchesData, parsed[1], draws)
                    IN /\ teams' = ts
                       /\ resultOverlay' =
                             [display |-> TRUE, innerHTML |-> TeamsText(ts)]
                       /\ resultTimer' = <<t + RESET_DELAY>>
                       /\ UNCHANGED <<touchesData, loopAlive>>
       ELSE /\ resultTimer' = <<t + RESET_DELAY>>
            /\ UNCHANGED <<touchesData, teams, resultOverlay, loopAlive>>

\* variant of ShouldLock: the comparison with the timeout is not strict
ShouldLockAtTimeout(t) ==
    /\ ~locked
    /\ ~showingResult
    /\ t - lastTouchTime >= INACTIVITY_TIMEOUT
    /\ Cardinality(DOMAIN touchesData) > 0

\* variant of ShouldLock: locked and showingResult are not tested
ShouldLockAgain(t) ==
    /\ t - lastTouchTime > INACTIVITY_TIMEOUT
    /\ Cardinality(DOMAIN touchesData) > 0

\* the inactivity check of drawLoop at clock reading t
ShouldLock(t) ==
    /\ ~locked
    /\ ~showingResult
    /\ t - lastTouchTime > INACTIVITY_TIMEOUT
    /\ Cardinality(DOMAIN touchesData) > 0

\* the drawing part of drawLoop: the canvas is cleared, the loop over
\* touchesData skips the touches that are not active and calls drawAim for
\* the others, and drawTeamLines is called when a team result is showing.
\* The frame is recorded by the touches it left out and the team lines.
DrawFrame(td, showing, m) ==
    [skipped |-> {id \in DOMAIN td : ~td[id].active},
     teamLines |-> showing /\ m = "team"]

\* one animation frame at clock reading t: the drawing, then the inactivity
\* check
drawLoop(t) ==
    /\ canvas' = DrawFrame(touchesData, showingResult, mode)
    /\ IF ShouldLock(t) THEN lockAndShowResult(t) ELSE UNCHANGED progVars

-----------------------------------------------------------------------------
(* Actions: the events of the page *)

TouchIds(ev) == {ev[i].identifier : i \in 1..Len(ev)}

\* touchstart: fingers of S that were up land
StartEvent(S) ==
    \E ev \in StartLists(S \ down) :
        /\ handleTouchStart(ev)
        /\ down' = down \cup TouchIds(ev)
        /\ lastStructural' = IF locked THEN lastStructural ELSE now
        /\ UNCHANGED <<now, lockedAt, canvas>>

\* touchmove: fingers of S that are down move
MoveEvent(S) ==
    \E ev \in MoveLists(S \cap down) :
        /\ handleTouchMove(ev)
        /\ UNCHANGED <<now, down, lockedAt, lastStructural, canvas>>

\* touchend or touchcancel (one handler serves both): fingers of S that are
\* down lift
EndEvent(S) ==
    \E ev \in EndLists(S \cap down) :
        /\ handleTouchEnd(ev)
        /\ down' = down \ TouchIds(ev)
        /\ lastStructural' = IF locked THEN lastStructural ELSE now
        /\ UNCHANGED <<now, lockedAt, canvas>>

TouchStart == StartEvent(Ids)
TouchMove == MoveEvent(Ids)
TouchEnd == EndEvent(Ids)

\* requestAnimationFrame calls drawLoop; the clock has advanced by d
Tick ==
    /\ loopAlive
    /\ \E d \in Deltas :
        /\ now + d <= MaxTime
        /\ IF resultTimer = NULL THEN TRUE ELSE now + d <= resultTimer[1]
        /\ now' = now + d
        /\ drawLoop(now + d)
        /\ lockedAt' = IF ShouldLock(now + d) THEN <<now + d>> ELSE lockedAt
    /\ UNCHANGED <<down, lastStructural>>

\* the timeout set by lockAndShowResult expires
TimerFire ==
    /\ resultTimer # NULL
    /\ IF resultTimer = NULL THEN FALSE ELSE resultTimer[1] <= MaxTime
    /\ now' = IF resultTimer[1] > now THEN resultTimer[1] ELSE now
    /\ resetAll
    /\ lockedAt' = NULL
    /\ lastStructural' = 0
    /\ UNCHANGED <<mode, countInput, loopAlive, down, canvas>>

\* another mode radio is checked
ModeChange ==
    /\ \E m \in Modes \ {mode} : mode' = m
    /\ resetAll
    /\ lockedAt' = NULL
    /\ lastStructural' = 0
    /\ UNCHANGED <<countInput, loopAlive, now, down, canvas>>

\* the team count input is edited
CountChange ==
    /\ \E v \in CountValues \ {countInput} : countInput' = v
    /\ resetAll
    /\ lockedAt' = NULL
    /\ lastStructural' = 0
    /\ UNCHANGED <<mode, loopAlive, now, down, canvas>>

Next ==
    \/ TouchStart
    \/ TouchMove
    \/ TouchEnd
    \/ Tick
    \/ TimerFire
    \/ ModeChange
    \/ CountChange

Spec == Init /\ [][Next]_vars

-----------------------------------------------------------------------------
(* The crowd scenario: the fingers RestIds landed together when the page   *)
(* was loaded and rest on the surface; the fingers CrowdIds come and go.   *)
(* The page stays in choose mode.                                          *)

\* the state after the touchstart event ev at StartTime, on the page as loaded
AfterFirstTouch(ev) ==
    /\ touchesData = AddTouches(EmptyObject, ev)
    /\ lastTouchTime = StartTime
    /\ showingResult = FALSE
    /\ locked = FALSE
    /\ resultTimer = NULL
    /\ teams = <<>>
    /\ resultOverlay = [display |-> FALSE, innerHTML |-> <<>>]
    /\ loopAlive = TRUE
    /\ now = StartTime
    /\ down = TouchIds(ev)
    /\ lockedAt = NULL
    /\ lastStructural = StartTime
    /\ canvas = ClearCanvas

TouchesOf(S) == TouchesLanding(SortedSeq(S))

InitCrowd ==
    /\ AfterFirstTouch(TouchesOf(RestIds))
    /\ mode = "choose"
    /\ countInput \in CountValues

CrowdStart == StartEvent(CrowdIds)
CrowdMove == MoveEvent(CrowdIds)
CrowdEnd == EndEvent(CrowdIds)

NextCrowd ==
    \/ CrowdStart
    \/ CrowdMove
    \/ CrowdEnd
    \/ Tick
    \/ TimerFire
    \/ CountChange

SpecCrowd == InitCrowd /\ [][NextCrowd]_vars

-----------------------------------------------------------------------------
(* The selection scenario: some fingers of SelectIds landed together when  *)
(* the page was loaded and stay; the session locks and resets by itself.   *)

InitSelect ==
    /\ \E S \in (SUBSET SelectIds) \ {{}} : AfterFirstTouch(TouchesOf(S))
    /\ mode \in Modes
    /\ countInput \in CountValues

NextSelect ==
    \/ Tick
    \/ TimerFire

SpecSelect == InitSelect /\ [][NextSelect]_vars

-----------------------------------------------------------------------------
(* Properties *)

Registry == DOMAIN touchesData
Size == Cardinality(Registry)

\* C1: while the session is locked, a touchstart, touchmove, touchend or
\* touchcancel event changes neither the registry (keys, positions, colours,
\* active flags), nor the stored result (teams, overlay), nor lastTouchTime,
\* nor the pending auto-reset timer.
\* (Written as "locked => unchanged or not a touch event", which is the same
\* implication with the cheap tests first; a touch event never changes
\* lockedAt, so the second disjunct only spares the third.)
C1_LockedIgnoresTouches ==
    [][locked =>
          \/ UNCHANGED <<touchesData, teams, resultOverlay, lastTouchTime,
                         resultTimer, locked, showingResult>>
          \/ lockedAt' # lockedAt
          \/ ~(TouchStart \/ TouchMove \/ TouchEnd)]_vars

\* a locked session with a result, in which a registered finger has lifted and
\* a finger that is not registered is down
C1_Witness ==
    /\ locked
    /\ resultTimer # NULL
    /\ Registry \ down # {}
    /\ down \ Registry # {}

\* C2: the registry never holds more than 10 contacts.
C2_CapacityRespected == Size <= MAX_TOUCHES

\* the registry is full and a further finger is down, unregistered
C2_Witness ==
    /\ Size = MAX_TOUCHES
    /\ Cardinality(down) > MAX_TOUCHES
    /\ ~locked

\* a result is stored and shown
HasResult ==
    /\ resultOverlay.display
    /\ resultOverlay.innerHTML # <<>>
    /\ mode = "team" => teams # <<>>

\* C3: an open session with a non-empty registry locks, with a result, at the
\* first frame more than 5000 ms after the last touchstart/touchend event;
\* touchmove events in between do not postpone the lock.  As state
\* predicates: while frames keep coming, an open non-empty session is never
\* seen more than 5000 ms after its last structural event, and a locked
\* session has a result.
C3_LocksWithResultAfterTimeout ==
    /\ (loopAlive /\ ~locked /\ Registry # {})
          => now - lastStructural <= INACTIVITY_TIMEOUT
    /\ locked => HasResult

\* C4: a locked session returns to idle 10000 ms after the lock: whenever the
\* session is locked the auto-reset is pending, due 10000 ms after the lock,
\* and not yet overdue.
C4_LockedResetsAfterDelay ==
    locked =>
        IF resultTimer = NULL \/ lockedAt = NULL THEN FALSE
        ELSE /\ resultTimer[1] = lockedAt[1] + RESET_DELAY
             /\ now <= resultTimer[1]

TeamSizes == {Len(teams[i]) : i \in 1..Len(teams)}

\* the places <<team, position>> at which id is stored in teams
PlacesOf(id) ==
    {pl \in UNION {{<<i, j>> : j \in 1..Len(teams[i])} : i \in 1..Len(teams)} :
        teams[pl[1]][pl[2]].id = id}

RECURSIVE SumLen(_)
SumLen(ts) == IF ts = <<>> THEN 0 ELSE Len(Head(ts)) + SumLen(Tail(ts))

TeamIds == UNION {{teams[i][j].id : j \in 1..Len(teams[i])} : i \in 1..Len(teams)}

\* the session locked in team mode with a team count that is a number
TeamLocked == locked /\ mode = "team" /\ parseInt(countInput) # NULL

\* C5: in team mode, with a numeric team count, the stored teams partition
\* the registry: the sizes sum to n, differ by at most 1, every registered id
\* is stored at exactly one place, and no other id is stored.
C5_TeamsPartitionRegistry ==
    TeamLocked =>
        /\ SumLen(teams) = Size
        /\ \A a, b \in TeamSizes : a - b <= 1
        /\ \A id \in Registry : Cardinality(PlacesOf(id)) = 1
        /\ TeamIds \subseteq Registry

\* five contacts locked into two teams of sizes 3 and 2
C5_Witness ==
    /\ TeamLocked
    /\ Size = 5
    /\ Len(teams) = 2
    /\ TeamSizes = {2, 3}

ActiveIds == {id \in Registry : touchesData[id].active}

\* C6: in choose mode, after the lock exactly one registered contact is
\* active, the winner, whose colour the overlay names; all others are inactive.
C6_ExactlyOneWinner ==
    (locked /\ mode = "choose") =>
        /\ Cardinality(ActiveIds) = 1
        /\ \A id \in ActiveIds :
              resultOverlay.innerHTML = WinnerText(touchesData[id].color)

\* a choose-mode lock of three contacts, two of them hidden
C6_Witness ==
    /\ locked
    /\ mode = "choose"
    /\ Size = 3
    /\ Cardinality(Registry \ ActiveIds) = 2

Max2(a, b) == IF a >= b THEN a ELSE b
Min2(a, b) == IF a <= b THEN a ELSE b

\* C7: in team mode, for a numeric team count k and n contacts, the number
\* of teams is max(1, min(k, n)) and no team is empty.
C7_TeamCountClamped ==
    TeamLocked =>
        /\ Len(teams) = Max2(1, Min2(parseInt(countInput)[1], Size))
        /\ \A i \in 1..Len(teams) : teams[i] # <<>>

\* a lock with a team count above the number of contacts
C7_Witness ==
    /\ TeamLocked
    /\ parseInt(countInput)[1] > Size
    /\ Len(teams) = Size
    /\ Size > 1

\* C8: the session becomes locked only in a frame, with a non-empty
\* registry, strictly more than 5000 ms after lastTouchTime and after the
\* last touchstart/touchend event; no step leaves a locked session with an
\* empty registry, and removing the last contact leaves the session unlocked
\* with no result.
C8_LockOnlyAfterTimeout ==
    [][/\ (~locked /\ locked') =>
            /\ Tick
            /\ Registry # {}
            /\ now' - lastTouchTime > INACTIVITY_TIMEOUT
            /\ now' - lastStructural > INACTIVITY_TIMEOUT
       /\ (Registry' = {}) => (~locked' /\ teams' = <<>> /\ ~resultOverlay'.display)
      ]_vars

\* a session locked more than 5000 ms after its last structural event
C8_Witness ==
    /\ locked
    /\ lockedAt # NULL
    /\ Registry # {}
    /\ IF lockedAt = NULL THEN FALSE
       ELSE lockedAt[1] - lastStructural > INACTIVITY_TIMEOUT

\* C9: while the session is not locked, a touchmove leaves lastTouchTime
\* alone, and a touchstart that adds a contact or a touchend/touchcancel that
\* removes one sets lastTouchTime to the current time.
\* (Each implication "event => effect" is written "effect or not event", the
\* cheap test first.)
C9_OnlyStructuralEventsStamp ==
    [][~locked =>
          /\ lastTouchTime' = lastTouchTime \/ ~TouchMove
          /\ lastTouchTime' = now \/ Registry' \ Registry = {} \/ ~TouchStart
          /\ lastTouchTime' = now \/ Registry \ Registry' = {} \/ ~TouchEnd
      ]_vars

\* an open session in which a finger has moved and the clock has advanced
\* since the last structural event
C9_Witness ==
    /\ ~locked
    /\ \E id \in Registry : <<touchesData[id].x, touchesData[id].y>> # LandPoint
    /\ lastTouchTime > 0
    /\ lastTouchTime < now

IdleState ==
    /\ Registry = {}
    /\ teams = <<>>
    /\ ~locked
    /\ ~showingResult
    /\ resultTimer = NULL
    /\ resultOverlay = [display |-> FALSE, innerHTML |-> <<>>]

\* C10: a mode change or a team-count change yields the idle state at once,
\* from any state: registry empty, no result, not locked, not showing a
\* result, no pending timer.
C10_ChangeResets ==
    [][IdleState' \/ ~(ModeChange \/ CountChange)]_vars

\* an idle session with fingers still down, at a time at which the auto-reset
\* timer of a lock cannot have expired yet: a change event has reset it
C10_Witness ==
    /\ IdleState
    /\ down # {}
    /\ lastTouchTime = 0
    /\ now < StartTime + INACTIVITY_TIMEOUT + RESET_DELAY

IdleRecord ==
    [touchesData |-> EmptyObject, showingResult |-> FALSE, locked |-> FALSE,
     lastTouchTime |-> 0, teams |-> <<>>,
     resultOverlay |-> [display |-> FALSE, innerHTML |-> <<>>],
     resultTimer |-> NULL]

\* C11: reset is idempotent: in every reachable state, resetAll applied twice
\* leaves what resetAll applied once leaves, which is the idle state (empty
\* registry, no result, not locked, lastTouchTime = 0, no pending timer).
C11_ResetIdempotent ==
    /\ ResetResult(ResetResult(SessionState)) = ResetResult(SessionState)
    /\ ResetResult(SessionState) = IdleRecord

\* a locked session with teams and a pending timer, which a reset changes
C11_Witness ==
    /\ locked
    /\ teams # <<>>
    /\ resultTimer # NULL
    /\ ResetResult(SessionState) # SessionState

\* C12: the session has no terminal state: whatever the mode and the content
\* of the team-count input at lock time, the frame loop keeps running and a
\* locked session has its auto-reset pending, so that idle follows.
C12_NoTerminalState ==
    /\ loopAlive
    /\ locked => resultTimer # NULL

\* C13: a result is stored exactly when the session is locked: a locked
\* session has its result shown (and, in team mode, its teams stored), and a
\* session that is not locked has no teams and no result overlay.
C13_ResultExactlyWhenLocked ==
    /\ locked <=> HasResult
    /\ ~locked => (teams = <<>> /\ ~resultOverlay.display
                      /\ resultOverlay.innerHTML = <<>>)

\* C14: while the session is not locked, every id in the registry belongs to
\* a finger that is physically down (fingers land with a touchstart and lift
\* with a touchend or touchcancel); only a locked session keeps lifted ids.
C14_RegistryWithinDown == ~locked => Registry \subseteq down

\* an open session after a reset: one finger held since the previous round is
\* not registered, another that landed since is
C14_Witness ==
    /\ ~locked
    /\ Registry # {}
    /\ Registry \subseteq down
    /\ down \ Registry # {}
    /\ now > StartTime

\* C15: the auto-reset timer never fires into a later round: a timer is
\* pending exactly when the session is locked, and the pending timer is due
\* 10000 ms after the lock of the session that is locked now (resultTimer is
\* a single handle, so at most one timer is pending).
C15_TimerExactlyWhenLocked ==
    /\ (resultTimer # NULL) <=> locked
    /\ IF resultTimer = NULL THEN TRUE
       ELSE IF lockedAt = NULL THEN FALSE
       ELSE resultTimer[1] = lockedAt[1] + RESET_DELAY

\* what a touch handler can write of the session
SessionVars ==
    <<touchesData, lastTouchTime, showingResult, locked, resultTimer, teams,
      resultOverlay>>

\* C16: a touchend or touchcancel whose fingers are all absent from the
\* registry is a no-op: the registry, lastTouchTime and the session state
\* are unchanged, so the event does not restart the inactivity window.
C16_AbsentEndIsNoOp ==
    [][(/\ down' # down
        /\ down' \subseteq down
        /\ (down \ down') \cap Registry = {}
        /\ TouchEnd)
          => UNCHANGED SessionVars]_vars

\* C17: with 10 contacts registered and the session not locked, a touchstart
\* for a further id changes nothing: registry, lastTouchTime and session state
\* are the same after the event as before it.
C17_FullStartChangesNothing ==
    [][(/\ ~locked
        /\ Size = MAX_TOUCHES
        /\ down' # down
        /\ down \subseteq down'
        /\ CrowdStart)
          => UNCHANGED SessionVars]_vars

\* C18: the selection is computed once per lock: from the frame that locks
\* the session until the next reset, no frame and no other event changes the
\* winner or the teams (teams, result overlay) or any touch's active flag
\* (the registry), however many frames pass.
C18_SelectionComputedOnce ==
    [][(locked /\ locked') => UNCHANGED <<touchesData, teams, resultOverlay>>]_vars

\* a locked choose-mode session with a hidden touch, some frames after the lock
C18_Witness ==
    /\ locked
    /\ HasResult
    /\ mode = "choose"
    /\ \E id \in Registry : ~touchesData[id].active
    /\ IF lockedAt = NULL THEN FALSE ELSE now > lockedAt[1]

\* the number of positions p of 0 .. n-1 with p mod k = i
DealtTo(i, n, k) == Cardinality({p \in 0 .. (n - 1) : p % k = i})

\* ts holds the sequence sh dealt round-robin: position p (from 0) of sh is
\* in team p mod k, at the place of its turn, and ts holds nothing else
IsRoundRobin(ts, sh, k) ==
    /\ Len(ts) = k
    /\ \A i \in 1..k : Len(ts[i]) = DealtTo(i - 1, Len(sh), k)
    /\ \A p \in 0 .. (Len(sh) - 1) : ts[(p % k) + 1][(p \div k) + 1] = sh[p + 1]

\* C19: in team mode, with a numeric team count, the teams are the shuffled
\* sequence dealt round-robin: the touch at shuffled position p (from 0) is in
\* team p mod k, the teams are stored team 0 first, and the members of a team
\* are in the order they were dealt.  Before the lock this is stated of the
\* teams lockAndShowResult computes for every sequence of random draws; after
\* the lock, of the sizes of the stored teams.
C19_DealtRoundRobin ==
    (mode = "team" /\ parseInt(countInput) # NULL /\ Registry # {}) =>
        LET n == Size
            k == ClampTeamCount(parseInt(countInput)[1], n)
        IN IF locked
           THEN /\ Len(teams) = k
                /\ \A i \in 1..k : Len(teams[i]) = DealtTo(i - 1, n, k)
           ELSE \A draws \in [2..n -> 0 .. (RandDenom - 1)] :
                   IsRoundRobin(MakeTeams(touchesData, parseInt(countInput)[1], draws),
                                Shuffle(TouchArray(touchesData), n, draws), k)

\* five contacts dealt into three teams of 2, 2 and 1, the first team not
\* led by the lowest id
C19_Witness ==
    /\ TeamLocked
    /\ Size = 5
    /\ Len(teams) = 3
    /\ Len(teams[1]) = 2 /\ Len(teams[2]) = 2 /\ Len(teams[3]) = 1
    /\ teams[1][1].id > teams[1][2].id

\* COLORS[id % COLORS.length]
PaletteColor(id) == COLORS[(id % Len(COLORS)) + 1]

\* C20: every registered touch has the palette colour at index id mod 10 from
\* the touchstart that added it until it leaves the registry, so the colour
\* never changes: not when the touch moves, not at the lock, and a further
\* touchstart for the same id would store the same colour.
C20_ColorIsPaletteOfId ==
    \A id \in Registry :
        /\ touchesData[id].color = PaletteColor(id)
        /\ \A p \in Points :
              AddTouches(touchesData, <<Touch(id, p)>>)[id].color
                  = touchesData[id].color

\* a locked session that holds a touch whose id wraps around the palette and
\* which has moved since it landed
C20_Witness ==
    /\ locked
    /\ \E id \in Registry :
          /\ id >= Len(COLORS)
          /\ <<touchesData[id].x, touchesData[id].y>> # LandPoint
          /\ touchesData[id].color = COLORS[1]

\* C21: the palette gives distinct colours to the fingers on the glass: any
\* two different touches that are in the registry at the same time have
\* different colours, whatever their identifiers (10 and above included).
C21_DistinctColors ==
    \A a, b \in Registry :
        a # b => touchesData[a].color # touchesData[b].color

\* C22: within a frame the state update precedes the drawing: the frame
\* drawn by the drawLoop call that locks the session already shows the
\* locked result (the touches that lost are left out, the team lines are
\* drawn).
C22_LockFrameShowsResult ==
    [][(~locked /\ locked' /\ HasResult')
          => canvas' = DrawFrame(touchesData', showingResult', mode')]_vars

\* C23: while the session is not locked every registered touch is active; a
\* touch that is not active exists only in a locked choose-mode session, and
\* none survives into the next round.
C23_InactiveOnlyWhenLockedChoose ==
    \A id \in Registry :
        ~touchesData[id].active => (locked /\ mode = "choose")

\* a new round: the last frame drawn still leaves out the loser of the
\* previous round, and a touch registered since is active
C23_Witness ==
    /\ ~locked
    /\ canvas.skipped # {}
    /\ Registry # {}
    /\ \A id \in Registry : touchesData[id].active

\* C24: fingers that are still down at a reset are not registered again:
\* from an empty registry only a touchstart of a finger that lands makes the
\* registry non-empty (a touchmove of the held fingers, a frame, a timer or a
\* change of the inputs does not), and no step from an empty registry locks
\* the session.
C24_HeldFingersStayOut ==
    [][Registry = {} =>
          /\ Registry' # {} => (down' # down /\ down \subseteq down')
          /\ ~locked']_vars

\* after a reset with a finger held: the registry is empty, no touchstart or
\* touchend has been handled since, more than the inactivity time has passed
\* on the clock, the canvas shows no result, and the session is open
C24_Witness ==
    /\ Registry = {}
    /\ down # {}
    /\ ~locked
    /\ loopAlive
    /\ lastTouchTime = 0
    /\ now - lastTouchTime > INACTIVITY_TIMEOUT
    /\ now > StartTime
    /\ canvas = ClearCanvas

====
